---- MODULE Spec2Model ----
(***************************************************************************)
(* Model of csv2gexf (lib/index.js): the schema check, the value coercion, *)
(* the derivation of the attribute model, the assembly of the Gexf object  *)
(* and the promise chain of convert.                                       *)
(*                                                                         *)
(* Strings that the program only compares or copies (headers, schema ids,  *)
(* markers) are TLA+ strings.  Cell texts, which the program parses, are   *)
(* sequences of one-character strings.  A message is the sequence of the   *)
(* pieces of its template literal.                                         *)
(***************************************************************************)
EXTENDS Integers, Sequences, FiniteSets, TLC

VARIABLES pc, config, files, nodeRecords, edgeRecords, gexfObj, chain,
          promise, console, io, unit

vars == <<pc, config, files, nodeRecords, edgeRecords, gexfObj, chain,
          promise, console, io, unit>>

----------------------------------------------------------------------------
(* Bounds *)

MaxCols == 3
MaxRows == 2
MaxLen == 3

----------------------------------------------------------------------------
(* JavaScript values *)

Undefined == "undefined"

Text(s) == [t |-> "string", s |-> s, n |-> 0, d |-> 0, b |-> FALSE]
Num(n, d) == [t |-> "number", s |-> <<>>, n |-> n, d |-> d, b |-> FALSE]
NaN == [t |-> "NaN", s |-> <<>>, n |-> 0, d |-> 0, b |-> FALSE]
Bool(b) == [t |-> "boolean", s |-> <<>>, n |-> 0, d |-> 0, b |-> b]
Undef == [t |-> "undefined", s |-> <<>>, n |-> 0, d |-> 0, b |-> FALSE]

Digits == <<"0", "1", "2", "3", "4", "5", "6", "7", "8", "9">>

RECURSIVE Str(_)
Str(n) == IF n < 10 THEN <<Digits[n + 1]>>
          ELSE Str(n \div 10) \o <<Digits[(n % 10) + 1]>>

NoError == [name |-> "none", message |-> <<>>]
Error(msg) == [name |-> "Error", message |-> msg]
ReferenceError(v) == [name |-> "ReferenceError", message |-> <<v, " is not defined">>]
TypeError(msg) == [name |-> "TypeError", message |-> msg]
StringError(msg) == [name |-> "string", message |-> msg]

----------------------------------------------------------------------------
(* Schema elements: typeof, the string of a marker, the fields of an     *)
(* object.                                                                 *)

Marker(m) == [kind |-> "string", str |-> m, target |-> Undefined,
              id |-> Undefined, title |-> Undefined, type |-> Undefined]
Obj(target, id, title, type) ==
    [kind |-> "object", str |-> Undefined, target |-> target,
     id |-> id, title |-> title, type |-> type]
NumberEl == [kind |-> "number", str |-> "42", target |-> Undefined,
             id |-> Undefined, title |-> Undefined, type |-> Undefined]
(* null: typeof null is 'object', and reading a property of it throws *)
NullEl == [kind |-> "object", str |-> "null", target |-> Undefined,
           id |-> Undefined, title |-> Undefined, type |-> Undefined]
NullError == TypeError(<<"Cannot read property '", "target", "' of ", "null">>)

(* an indexOf that also matches an object whose id is m *)
indexOfById(schema, m) ==
    IF \E i \in 1..Len(schema) : schema[i].str = m \/ schema[i].id = m
    THEN (CHOOSE i \in 1..Len(schema) :
             /\ schema[i].str = m \/ schema[i].id = m
             /\ \A j \in 1..(i - 1) : ~(schema[j].str = m \/ schema[j].id = m)) - 1
    ELSE -1

indexOf(schema, m) ==
    IF \E i \in 1..Len(schema) : schema[i] = Marker(m)
    THEN (CHOOSE i \in 1..Len(schema) :
             /\ schema[i] = Marker(m)
             /\ \A j \in 1..(i - 1) : schema[j] # Marker(m)) - 1
    ELSE -1

nodeStringSpecs == {"id", "label"}
edgeStringSpecs == {"id", "label", "source", "target", "type", "weight"}
attributeTypes == {"string", "integer", "float", "boolean"}
nodeVizIds == {"color", "size", "shape"}
edgeVizIds == {"color", "thickness", "shape"}

ctxtOf(isNodeSchema) ==
    <<"in the ", IF isNodeSchema THEN "node" ELSE "edge", " schema">>

(* Object.keys(records[0]) *)
NoRecordError == TypeError(<<"Cannot convert undefined or null to object">>)
Table(headers, rows) == [headers |-> headers, rows |-> rows]
(* a records[0] that is an object also when there is no record *)
HasFirstAlways(records) == TRUE
HasFirst(records) == Len(records.rows) > 0

----------------------------------------------------------------------------
(* checkSchema.  The result is the exception thrown (NoError on a normal   *)
(* return) and the schema as the call leaves it: the attribute elements    *)
(* are changed in place.                                                   *)

Ret(thrown, schema) == [thrown |-> thrown, schema |-> schema]

(* defaults that take the title from the header, not from the id *)
fillDefaultsFromHeader(spec, header) ==
    LET withId == IF spec.id = Undefined THEN [spec EXCEPT !.id = header] ELSE spec
    IN  IF withId.title = Undefined THEN [withId EXCEPT !.title = header]
        ELSE withId

(* the two defaults in the other order: the title before the id *)
fillDefaultsTitleFirst(spec, header) ==
    LET withTitle == IF spec.title = Undefined THEN [spec EXCEPT !.title = spec.id]
                     ELSE spec
    IN  IF withTitle.id = Undefined THEN [withTitle EXCEPT !.id = header]
        ELSE withTitle

(* lines 890-891: the defaults of an 'attributes' element *)
fillDefaults(spec, header) ==
    LET withId == IF spec.id = Undefined THEN [spec EXCEPT !.id = header] ELSE spec
    IN  IF withId.title = Undefined THEN [withId EXCEPT !.title = withId.id]
        ELSE withId

(* the body of the loop over the columns, for one column: the exception    *)
(* it throws and the element as it leaves it                               *)
checkColumn(spec, header, isNodeSchema) ==
    LET ctxt == ctxtOf(isNodeSchema) IN
    IF spec.kind = "string" THEN
        IF isNodeSchema /\ spec.str \notin nodeStringSpecs
        THEN [thrown |-> Error(<<"Unexpected node schema element '", spec.str, "' ">>
                               \o ctxt \o <<".">>), spec |-> spec]
        ELSE IF ~isNodeSchema /\ spec.str \notin edgeStringSpecs
        THEN [thrown |-> Error(<<"Unexpected edge schema element '", spec.str, "' ">>
                               \o ctxt \o <<".">>), spec |-> spec]
        ELSE [thrown |-> NoError, spec |-> spec]
    ELSE IF spec.kind # "object" THEN
        [thrown |-> Error(<<"A schema element must be either a string or an object, got '",
                            spec.str, "' of type ", spec.kind, " ">> \o ctxt),
         spec |-> spec]
    ELSE IF spec = NullEl THEN [thrown |-> NullError, spec |-> spec]
    ELSE IF spec.target = "attributes" THEN
        LET filled == fillDefaults(spec, header) IN
        IF filled.type \notin attributeTypes
        THEN [thrown |-> Error(<<"Unexpected type '", filled.type,
                                 "' in the 'attributes' schema element",
                                 " with id '", filled.id, "' ">> \o ctxt \o <<".">>),
              spec |-> filled]
        ELSE [thrown |-> NoError, spec |-> filled]
    ELSE IF spec.target = "viz" THEN
        IF isNodeSchema THEN
            IF spec.id \notin nodeVizIds
            THEN [thrown |-> Error(<<"Unexpected id '", spec.id, "' for a 'viz' element ">>
                                   \o ctxt \o <<".">>), spec |-> spec]
            ELSE [thrown |-> NoError, spec |-> spec]
        ELSE
            IF spec.id = Undefined
            THEN [thrown |-> Error(<<"The id is missing for a 'viz' element ">>
                                   \o ctxt \o <<".">>), spec |-> spec]
            ELSE IF spec.id \notin edgeVizIds
            THEN [thrown |-> Error(<<"Unexpected id '", spec.id, "' for a 'viz' element ">>
                                   \o ctxt \o <<".">>), spec |-> spec]
            ELSE [thrown |-> NoError, spec |-> spec]
    ELSE [thrown |-> Error(<<"Unexpected target '", spec.target, "' ">> \o ctxt),
          spec |-> spec]

(* a loop that gives every 'attributes' element its defaults before it     *)
(* checks the first column                                                 *)
checkColumnsDefaultsFirst(headers, schema, isNodeSchema, coli) ==
    LET filled == [i \in DOMAIN schema |->
                      IF schema[i].kind = "object" /\ schema[i].target = "attributes"
                         /\ i \in DOMAIN headers
                      THEN fillDefaults(schema[i], headers[i]) ELSE schema[i]]
        RECURSIVE first(_)
        first(i) ==
            IF i > Len(headers) THEN NoError
            ELSE IF checkColumn(filled[i], headers[i], isNodeSchema).thrown # NoError
            THEN checkColumn(filled[i], headers[i], isNodeSchema).thrown
            ELSE first(i + 1)
    IN  Ret(first(coli), filled)

(* for (coli = 0; coli < headers.length; coli++), coli counted from 1 *)
RECURSIVE checkColumns(_, _, _, _)
checkColumns(headers, schema, isNodeSchema, coli) ==
    IF coli > Len(headers) THEN Ret(NoError, schema)
    ELSE LET r == checkColumn(schema[coli], headers[coli], isNodeSchema)
             schema2 == [schema EXCEPT ![coli] = r.spec]
         IN  IF r.thrown # NoError THEN Ret(r.thrown, schema2)
             ELSE checkColumns(headers, schema2, isNodeSchema, coli + 1)

LengthError(ncols, nels, isNodeSchema) ==
    Error(<<"There are ">> \o Str(ncols) \o <<" columns and ">>
          \o Str(nels) \o <<" schema elements", " ">> \o ctxtOf(isNodeSchema)
          \o <<". These numbers should be equal.">>)

(* a length check that accepts a schema longer than the columns *)
checkLengthFewer(headers, schema, isNodeSchema) ==
    IF Len(headers) > Len(schema)
    THEN LengthError(Len(headers), Len(schema), isNodeSchema)
    ELSE NoError

(* lines 847-852: one schema element for each column *)
checkLength(headers, schema, isNodeSchema) ==
    IF Len(headers) # Len(schema)
    THEN LengthError(Len(headers), Len(schema), isNodeSchema)
    ELSE NoError

MissingError(m, isNodeSchema) ==
    Error(<<"There is no '", m, "' ">> \o ctxtOf(isNodeSchema) \o <<".">>)

(* lines 854-867: the required schema elements *)
checkRequired(schema, isNodeSchema) ==
    IF isNodeSchema THEN
        IF indexOf(schema, "id") < 0 THEN MissingError("id", isNodeSchema)
        ELSE NoError
    ELSE IF indexOf(schema, "source") < 0 THEN MissingError("source", isNodeSchema)
    ELSE IF indexOf(schema, "target") < 0 THEN MissingError("target", isNodeSchema)
    ELSE NoError

(* a checkSchema that looks for the required markers before it compares   *)
(* the lengths                                                             *)
checkSchemaRequiredFirst(records, schema, isNodeSchema) ==
    IF ~HasFirst(records) THEN Ret(NoRecordError, schema)
    ELSE LET headers == records.headers
             early == IF checkRequired(schema, isNodeSchema) # NoError
                      THEN checkRequired(schema, isNodeSchema)
                      ELSE checkLength(headers, schema, isNodeSchema)
         IN
    IF early # NoError THEN Ret(early, schema)
    ELSE checkColumns(headers, schema, isNodeSchema, 1)

checkSchema(records, schema, isNodeSchema) ==
    IF ~HasFirst(records) THEN Ret(NoRecordError, schema)
    ELSE LET headers == records.headers
             early == IF checkLength(headers, schema, isNodeSchema) # NoError
                      THEN checkLength(headers, schema, isNodeSchema)
                      ELSE checkRequired(schema, isNodeSchema)
         IN
    IF early # NoError THEN Ret(early, schema)
    ELSE checkColumns(headers, schema, isNodeSchema, 1)

----------------------------------------------------------------------------
(* parseValues and the parse functions it applies to the cells *)

IsDigit(c) == \E i \in 1..10 : Digits[i] = c
DigitVal(c) == (CHOOSE i \in 1..10 : Digits[i] = c) - 1

(* the first position from i on that holds no digit *)
RECURSIVE DigitsEnd(_, _)
DigitsEnd(s, i) ==
    IF i > Len(s) \/ ~IsDigit(s[i]) THEN i ELSE DigitsEnd(s, i + 1)

(* the value of the digits s[i..j-1], continuing from acc *)
RECURSIVE DigitsVal(_, _, _, _)
DigitsVal(s, i, j, acc) ==
    IF i >= j THEN acc ELSE DigitsVal(s, i + 1, j, acc * 10 + DigitVal(s[i]))

(* a decimal number n / 10^d without trailing zero decimals *)
RECURSIVE Decimal(_, _)
Decimal(n, d) ==
    IF d > 0 /\ n % 10 = 0 THEN Decimal(n \div 10, d - 1) ELSE Num(n, d)

SignLen(s) == IF Len(s) >= 1 /\ s[1] \in {"+", "-"} THEN 1 ELSE 0
Sign(s) == IF Len(s) >= 1 /\ s[1] = "-" THEN -1 ELSE 1

(* parseInt(val): an optional sign and the longest run of decimal digits *)
parseInt(val) ==
    IF val.t = "number" THEN Num(val.n, 0)
    ELSE IF val.t # "string" THEN NaN
    ELSE LET s == val.s
             from == SignLen(s) + 1
             to == DigitsEnd(s, from)
         IN  IF to = from THEN NaN
             ELSE Num(Sign(s) * DigitsVal(s, from, to, 0), 0)

(* parseFloat(val): an optional sign, digits, an optional point and digits *)
parseFloat(val) ==
    IF val.t = "number" THEN val
    ELSE IF val.t # "string" THEN NaN
    ELSE LET s == val.s
             from == SignLen(s) + 1
             intEnd == DigitsEnd(s, from)
             hasDot == intEnd <= Len(s) /\ s[intEnd] = "."
             fracEnd == IF hasDot THEN DigitsEnd(s, intEnd + 1) ELSE intEnd
             nFrac == IF hasDot THEN fracEnd - (intEnd + 1) ELSE 0
             mant == DigitsVal(s, intEnd + 1, fracEnd,
                               DigitsVal(s, from, intEnd, 0))
         IN  IF (intEnd - from) + nFrac = 0 THEN NaN
             ELSE Decimal(Sign(s) * mant, nFrac)

toUpperCase(c) ==
    CASE c = "t" -> "T" [] c = "r" -> "R" [] c = "u" -> "U" [] c = "e" -> "E"
      [] c = "f" -> "F" [] c = "a" -> "A" [] c = "l" -> "L" [] c = "s" -> "S"
      [] c = "y" -> "Y" [] c = "n" -> "N" [] c = "o" -> "O" [] c = "x" -> "X"
      [] OTHER -> c

(* a parseBoolean that compares with 'true' without changing the case *)
parseBooleanExact(val) == Bool(val.s = <<"t", "r", "u", "e">> \/ val.s = <<"1">>)

parseBoolean(val) ==
    Bool(\/ [i \in 1..Len(val.s) |-> toUpperCase(val.s[i])] = <<"T", "R", "U", "E">>
         \/ val.s = <<"1">>)

(* record[header] *)
Col(headers, header) == CHOOSE i \in 1..Len(headers) : headers[i] = header

ApplyFn(parseFn, val) ==
    CASE parseFn = "parseFloat" -> parseFloat(val)
      [] parseFn = "parseInt" -> parseInt(val)
      [] parseFn = "parseBoolean" -> parseBoolean(val)

(* the loop of the earlier copy of parseColumn (line 412), which starts at *)
(* the second record                                                       *)
parseColumnFromSecond(records, header, parseFn) ==
    LET c == Col(records.headers, header) IN
    [records EXCEPT !.rows =
        [reci \in 1..Len(records.rows) |->
            IF reci = 1 THEN records.rows[reci]
            ELSE [records.rows[reci] EXCEPT ![c] = ApplyFn(parseFn, @)]]]

parseColumn(records, header, parseFn) ==
    LET c == Col(records.headers, header) IN
    [records EXCEPT !.rows =
        [reci \in 1..Len(records.rows) |->
            [records.rows[reci] EXCEPT ![c] = ApplyFn(parseFn, @)]]]

(* assertColumn hands the record, an object, to assertFn: an object is in  *)
(* none of the lists of strings, so assertFn evaluates its message and     *)
(* throws at the first record.  The message of the 'type' and of the node  *)
(* 'shape' assertion reads ctxt, which parseValues does not declare.       *)
assertColumn(records, header, assertFn) ==
    IF Len(records.rows) = 0 THEN NoError
    ELSE IF assertFn = "edgeShapes"
    THEN Error(<<"Unexpected value '", "[object Object]", "' in column '",
                 header, "'.">>)
    ELSE ReferenceError("ctxt")

PRet(thrown, records, schema) ==
    [thrown |-> thrown, records |-> records, schema |-> schema]

(* the value of the assignment expression in `spec.target = '...'` *)
Truthy(str) == str # ""
TargetTest(spec, target) ==
    [spec |-> [spec EXCEPT !.target = target], holds |-> Truthy(target)]

(* the body of the loop of parseValues for one column: the element as the *)
(* tests of the target leave it, and the function (parseFloat, parseInt,   *)
(* parseBoolean) or the assertion (edgeTypes, nodeShapes, edgeShapes) the  *)
(* column is handed to, "none" when it is left alone                       *)
columnRule(spec, isNodeSchema) ==
    IF spec.kind = "string" THEN
        [spec |-> spec,
         fn |-> IF spec.str = "weight" THEN "parseFloat"
                ELSE IF spec.str = "type" THEN "edgeTypes"
                ELSE "none"]
    ELSE
    LET t1 == TargetTest(spec, "attributes")
        t2 == TargetTest(t1.spec, "viz")
    IN
    IF t1.holds THEN
        [spec |-> t1.spec,
         fn |-> IF t1.spec.type = "integer" THEN "parseInt"
                ELSE IF t1.spec.type = "float" THEN "parseFloat"
                ELSE IF t1.spec.type = "boolean" THEN "parseBoolean"
                ELSE "none"]
    ELSE IF t2.holds THEN
        [spec |-> t2.spec,
         fn |-> IF t2.spec.id = "size" THEN "parseFloat"
                ELSE IF t2.spec.id = "shape"
                THEN (IF isNodeSchema THEN "nodeShapes" ELSE "edgeShapes")
                ELSE "none"]
    ELSE [spec |-> t2.spec, fn |-> "none"]

parseColumnOf(records, spec, header, isNodeSchema) ==
    LET rule == columnRule(spec, isNodeSchema) IN
    IF rule.fn \in {"parseFloat", "parseInt", "parseBoolean"}
    THEN [thrown |-> NoError, records |-> parseColumn(records, header, rule.fn),
          spec |-> rule.spec]
    ELSE IF rule.fn \in {"edgeTypes", "nodeShapes", "edgeShapes"}
    THEN [thrown |-> assertColumn(records, header, rule.fn),
          records |-> records, spec |-> rule.spec]
    ELSE [thrown |-> NoError, records |-> records, spec |-> rule.spec]

RECURSIVE parseColumns(_, _, _, _)
parseColumns(records, schema, isNodeSchema, coli) ==
    IF coli > Len(records.headers) THEN PRet(NoError, records, schema)
    ELSE LET r == parseColumnOf(records, schema[coli], records.headers[coli],
                                isNodeSchema)
             schema2 == [schema EXCEPT ![coli] = r.spec]
         IN  IF r.thrown # NoError THEN PRet(r.thrown, r.records, schema2)
             ELSE parseColumns(r.records, schema2, isNodeSchema, coli + 1)

parseValues(records, schema, isNodeSchema) ==
    IF ~HasFirst(records) THEN PRet(NoRecordError, records, schema)
    ELSE parseColumns(records, schema, isNodeSchema, 1)

----------------------------------------------------------------------------
(* GEXF construction.  The gexf package is outside the program: each of    *)
(* its calls (create, addNode, addEdge) either returns or throws, as the   *)
(* environment decides.  libFail is the number of the call that throws,    *)
(* counted from 1 over the calls createGexf makes, 0 when none throws.     *)

GexfError == Error(<<"gexf">>)

NoMap == [defined |-> FALSE, map |-> <<>>]
(* obj[key] = value, creating the object first when it is undefined *)
Put(m, key, value) ==
    [defined |-> TRUE,
     map |-> [k \in (DOMAIN m.map) \cup {key} |->
                 IF k = key THEN value ELSE m.map[k]]]

deriveModel(schema) ==
    LET RECURSIVE scan(_)
        scan(i) ==
            IF i > Len(schema) THEN <<>>
            ELSE IF schema[i].kind = "object" /\ schema[i].target = "attributes"
                 THEN <<[id |-> schema[i].id, type |-> schema[i].type,
                         title |-> schema[i].title]>> \o scan(i + 1)
                 ELSE scan(i + 1)
    IN  scan(1)

NewNode == [id |-> Undef, label |-> Undef, attributes |-> NoMap, viz |-> NoMap]

(* a loop that keeps the first cell found for 'id' and for 'label' *)
RECURSIVE nodeOfKeep(_, _, _, _, _)
nodeOfKeep(node, record, headers, schema, coli) ==
    IF coli > Len(headers) THEN node
    ELSE LET el == schema[coli]
             value == record[coli]
             node2 ==
                IF el.kind = "string" THEN
                    IF el.str = "id" /\ node.id = Undef
                    THEN [node EXCEPT !.id = value]
                    ELSE IF el.str = "label" /\ node.label = Undef
                    THEN [node EXCEPT !.label = value]
                    ELSE node
                ELSE [node EXCEPT !.attributes = Put(@, el.id, value)]
         IN  nodeOfKeep(node2, record, headers, schema, coli + 1)

(* the loop over the columns of addNodes, for one record *)
RECURSIVE nodeOf(_, _, _, _, _)
nodeOf(node, record, headers, schema, coli) ==
    IF coli > Len(headers) THEN node
    ELSE LET el == schema[coli]
             value == record[Col(headers, headers[coli])]
             node2 ==
                IF el.kind = "string" THEN
                    IF el.str = "id" THEN [node EXCEPT !.id = value]
                    ELSE IF el.str = "label" THEN [node EXCEPT !.label = value]
                    ELSE node
                ELSE IF el.target = "attributes"
                THEN [node EXCEPT !.attributes = Put(@, el.id, value)]
                ELSE IF el.target = "viz"
                THEN [node EXCEPT !.viz = Put(@, el.id, value)]
                ELSE node
         IN  nodeOf(node2, record, headers, schema, coli + 1)

(* line 1069: `node.label = id` reads a variable that is declared nowhere *)
nodeLabelDefault(node) ==
    IF node.label = Undef
    THEN [thrown |-> ReferenceError("id"), node |-> node]
    ELSE [thrown |-> NoError, node |-> node]

ARet(thrown, g, calls) ==
    [thrown |-> thrown, gexfObj |-> g, calls |-> calls]

(* addNodes from record reci on; calls is the number of library calls made *)
RECURSIVE addNodesFrom(_, _, _, _, _, _)
addNodesFrom(g, records, schema, reci, calls, libFail) ==
    IF reci > Len(records.rows) THEN ARet(NoError, g, calls)
    ELSE LET r == nodeLabelDefault(
                     nodeOf(NewNode, records.rows[reci], records.headers, schema, 1))
         IN  IF r.thrown # NoError THEN ARet(r.thrown, g, calls)
             ELSE IF libFail = calls + 1 THEN ARet(GexfError, g, calls + 1)
             ELSE addNodesFrom([g EXCEPT !.nodes = Append(@, r.node)],
                               records, schema, reci + 1, calls + 1, libFail)

(* the loop of the earlier copy of addNodes (line 477), which starts at    *)
(* the second record                                                       *)
addNodesFromSecond(g, records, schema, calls, libFail) ==
    IF ~HasFirst(records) THEN ARet(NoRecordError, g, calls)
    ELSE addNodesFrom(g, records, schema, 2, calls, libFail)

addNodes(g, records, schema, calls, libFail) ==
    IF ~HasFirst(records) THEN ARet(NoRecordError, g, calls)
    ELSE addNodesFrom(g, records, schema, 1, calls, libFail)

NewEdge == [id |-> Undef, label |-> Undef, source |-> Undef, target |-> Undef,
            type |-> Undef, weight |-> Undef, attributes |-> NoMap, viz |-> NoMap]

(* the loop over the columns of addEdges, for one record *)
RECURSIVE edgeOf(_, _, _, _, _)
edgeOf(edge, record, headers, schema, coli) ==
    IF coli > Len(headers) THEN edge
    ELSE LET el == schema[coli]
             value == record[Col(headers, headers[coli])]
             edge2 ==
                IF el.kind = "string" THEN
                    IF el.str = "id" THEN [edge EXCEPT !.id = value]
                    ELSE IF el.str = "label" THEN [edge EXCEPT !.label = value]
                    ELSE IF el.str = "type" THEN [edge EXCEPT !.type = value]
                    ELSE IF el.str = "source" THEN [edge EXCEPT !.source = value]
                    ELSE IF el.str = "target" THEN [edge EXCEPT !.target = value]
                    ELSE IF el.str = "weight" THEN [edge EXCEPT !.weight = value]
                    ELSE edge
                ELSE IF el.target = "attributes"
                THEN [edge EXCEPT !.attributes = Put(@, el.id, value)]
                ELSE IF el.target = "viz"
                THEN [edge EXCEPT !.viz = Put(@, el.id, value)]
                ELSE edge
         IN  edgeOf(edge2, record, headers, schema, coli + 1)

(* the default id of the earlier copy of addEdges (line 542), `e${coli + 1}` *)
(* with coli as the loop over the columns leaves it                        *)
edgeDefaultsColi(edge, idi, coli) ==
    LET withId == IF edge.id = Undef
                  THEN [edge EXCEPT !.id = Text(<<"e">> \o Str(coli + 1))]
                  ELSE edge
    IN  [edge |-> IF withId.label = Undef
                  THEN [withId EXCEPT !.label = withId.id] ELSE withId,
         idi |-> idi]

(* lines 1110-1111: the default id `e${idi++}` and the default label; the  *)
(* result carries the counter idi as the statement leaves it               *)
edgeDefaults(edge, idi, coli) ==
    LET withId == IF edge.id = Undef
                  THEN [edge EXCEPT !.id = Text(<<"e">> \o Str(idi))]
                  ELSE edge
        idi2 == IF edge.id = Undef THEN idi + 1 ELSE idi
    IN  [edge |-> IF withId.label = Undef
                  THEN [withId EXCEPT !.label = withId.id] ELSE withId,
         idi |-> idi2]

RECURSIVE addEdgesFrom(_, _, _, _, _, _, _)
addEdgesFrom(g, records, schema, reci, idi, calls, libFail) ==
    IF reci > Len(records.rows) THEN ARet(NoError, g, calls)
    ELSE LET r == edgeDefaults(
                     edgeOf(NewEdge, records.rows[reci], records.headers, schema, 1),
                     idi, Len(records.headers))
         IN  IF libFail = calls + 1 THEN ARet(GexfError, g, calls + 1)
             ELSE addEdgesFrom([g EXCEPT !.edges = Append(@, r.edge)],
                               records, schema, reci + 1, r.idi, calls + 1, libFail)

addEdges(g, records, schema, calls, libFail) ==
    IF ~HasFirst(records) THEN ARet(NoRecordError, g, calls)
    ELSE addEdgesFrom(g, records, schema, 1, 1, calls, libFail)

----------------------------------------------------------------------------
(* Promises and the values they carry *)

NoModel == [given |-> FALSE, node |-> <<>>, edge |-> <<>>]
NoParams == [defaultEdgeType |-> Undefined, meta |-> Undefined, model |-> NoModel]
NoGexf == [created |-> FALSE, params |-> NoParams, nodes |-> <<>>, edges |-> <<>>]
NoTable == Table(<<>>, <<>>)

VNone == [tag |-> "undefined", err |-> NoError, doc |-> NoGexf, recs |-> NoTable,
          path |-> Undefined]
VErr(e) == [VNone EXCEPT !.tag = "error", !.err = e]
VDoc(g) == [VNone EXCEPT !.tag = IF g.created THEN "gexf" ELSE "undefined", !.doc = g]
VRecs(r) == [VNone EXCEPT !.tag = "records", !.recs = r]
VPath(p) == [VNone EXCEPT !.tag = "path", !.path = p]
VStack(e) == [VNone EXCEPT !.tag = "stack", !.err = e]

Pending == [state |-> "pending", value |-> VNone]
(* resolve and reject settle a promise once: later calls change nothing *)
resolve(p, v) == IF p.state = "pending" THEN [state |-> "fulfilled", value |-> v] ELSE p
reject(p, v) == IF p.state = "pending" THEN [state |-> "rejected", value |-> v] ELSE p

----------------------------------------------------------------------------
(* createGexf: the executor of its promise *)

(* a createGexf whose catch block does not reject *)
settleGexfNoReject(thrown, g) == resolve(Pending, VDoc(g))

(* lines 1018-1023: the catch block rejects, then resolve(gexfObj) runs *)
settleGexf(thrown, g) ==
    resolve(IF thrown # NoError THEN reject(Pending, VErr(thrown)) ELSE Pending,
            VDoc(g))

(* a createGexf that keeps the model the caller gave *)
createGexfKeepModel(nodeRecs, edgeRecs, cfg, libFail) ==
    LET cfg2 == IF cfg.graphParams.model.given THEN cfg
                ELSE [cfg EXCEPT !.graphParams.model =
                    [given |-> TRUE, node |-> deriveModel(cfg.nodes.schema),
                     edge |-> deriveModel(cfg.edges.schema)]]
        created == [created |-> TRUE, params |-> cfg2.graphParams,
                    nodes |-> <<>>, edges |-> <<>>]
        n == addNodes(created, nodeRecs, cfg2.nodes.schema, 1, libFail)
        e == addEdges(n.gexfObj, edgeRecs, cfg2.edges.schema, n.calls, libFail)
        (* the try block: the exception and the value of `var gexfObj` *)
        try == IF libFail = 1 THEN ARet(GexfError, NoGexf, 1)
               ELSE IF n.thrown # NoError THEN n
               ELSE e
        caught == try.thrown # NoError
    IN  [promise |-> settleGexf(try.thrown, try.gexfObj),
         config  |-> cfg2,
         gexfObj |-> try.gexfObj,
         logged  |-> IF caught THEN <<VStack(try.thrown)>> ELSE <<>>,
         calls   |-> try.calls]

createGexf(nodeRecs, edgeRecs, cfg, libFail) ==
    LET cfg2 == [cfg EXCEPT !.graphParams.model =
                    [given |-> TRUE, node |-> deriveModel(cfg.nodes.schema),
                     edge |-> deriveModel(cfg.edges.schema)]]
        created == [created |-> TRUE, params |-> cfg2.graphParams,
                    nodes |-> <<>>, edges |-> <<>>]
        n == addNodes(created, nodeRecs, cfg2.nodes.schema, 1, libFail)
        e == addEdges(n.gexfObj, edgeRecs, cfg2.edges.schema, n.calls, libFail)
        (* the try block: the exception and the value of `var gexfObj` *)
        try == IF libFail = 1 THEN ARet(GexfError, NoGexf, 1)
               ELSE IF n.thrown # NoError THEN n
               ELSE e
        caught == try.thrown # NoError
    IN  [promise |-> settleGexf(try.thrown, try.gexfObj),
         config  |-> cfg2,
         gexfObj |-> try.gexfObj,
         logged  |-> IF caught THEN <<VStack(try.thrown)>> ELSE <<>>,
         calls   |-> try.calls]

----------------------------------------------------------------------------
(* loadCSV: the callback of csv.parse (lines 822-831) *)

loadRecords(records, schema, isNodeSchema) ==
    LET c == checkSchema(records, schema, isNodeSchema)
        v == parseValues(records, c.schema, isNodeSchema)
    IN  IF c.thrown # NoError
        THEN [promise |-> reject(Pending, VErr(c.thrown)), schema |-> c.schema,
              records |-> records]
        ELSE IF v.thrown # NoError
        THEN [promise |-> reject(Pending, VErr(v.thrown)), schema |-> v.schema,
              records |-> v.records]
        ELSE [promise |-> resolve(Pending, VRecs(v.records)), schema |-> v.schema,
              records |-> v.records]

----------------------------------------------------------------------------
(* The inputs of a conversion: the files on disk and the configuration *)

HeaderNames == <<"c1", "c2", "c3", "c4", "c5", "c6">>
Headers(nc) == SubSeq(HeaderNames, 1, nc)

(* the cell of row r and column c of a file: ids in the first two columns, *)
(* then numbers or words                                                   *)
FileCell(r, c, nr, words) ==
    IF c = 1 THEN Text(<<"n">> \o Str(r))
    ELSE IF c = 2 THEN Text(<<"n">> \o Str((r % nr) + 1))
    ELSE IF words THEN Text(<<"x">> \o Str(r))
    ELSE Text(Str(r) \o <<".", "5">>)

FileTable(nc, nr, words) ==
    Table(Headers(nc),
          [r \in 1..nr |-> [c \in 1..nc |-> FileCell(r, c, nr, words)]])

FileTables ==
    {FileTable(nc, nr, w) : nc \in 1..MaxCols, nr \in 0..MaxRows, w \in BOOLEAN}

(* a file: absent or unreadable, not parsable as CSV, or a table *)
FileOf(status, table) == [status |-> status, table |-> table]
NoFile == FileOf("ENOENT", NoTable)
BadCsv == FileOf("malformed", NoTable)
FileStates == {NoFile, BadCsv} \cup {FileOf("csv", t) : t \in FileTables}

AttrEl(id, type) == Obj("attributes", id, Undefined, type)
VizEl(id) == Obj("viz", id, Undefined, Undefined)

NodeSchemas ==
    { <<Marker("id"), Marker("label")>>,
      <<Marker("id"), Marker("label"), AttrEl("attrib_1", "float")>>,
      <<Marker("id"), Marker("label"), VizEl("size")>>,
      <<Marker("id"), AttrEl(Undefined, "string")>>,
      <<Marker("label"), AttrEl(Undefined, "string")>>,
      <<Marker("id")>> }

EdgeSchemas ==
    { <<Marker("source"), Marker("target")>>,
      <<Marker("source"), Marker("target"), AttrEl(Undefined, "string")>>,
      <<Marker("source"), Marker("target"), VizEl("thickness")>>,
      <<Marker("source"), Marker("target"), Marker("weight")>>,
      <<Marker("source"), Marker("target"), Marker("type")>>,
      <<Marker("id"), Marker("source"), Marker("target")>>,
      <<Marker("source"), Marker("label")>> }

CallerModel == [given |-> TRUE, node |-> <<[id |-> "x", type |-> "string", title |-> "x"]>>,
                edge |-> <<>>]

ConfigOf(m, ns, es, sa) ==
    [graphParams |-> [defaultEdgeType |-> "directed", meta |-> "An example graph.",
                      model |-> m],
     nodes |-> [file |-> "csv/nodes.csv", schema |-> ns,
                parseOptions |-> [columns |-> FALSE, trim |-> TRUE]],
     edges |-> [file |-> "csv/edges.csv", schema |-> es,
                parseOptions |-> [columns |-> FALSE, trim |-> TRUE]],
     saveAs |-> sa]

Configs ==
    { ConfigOf(m, ns, es, sa) :
      m \in {NoModel, CallerModel}, ns \in NodeSchemas, es \in EdgeSchemas,
      sa \in {Undefined, "result.gexf"} }

NoUnit == [fn |-> "none"]
(* the call of convert: config0 is the configuration as the caller passed  *)
(* it, config the object, which the conversion changes in place            *)
(* run counts the calls of convert made with the object, doc1 is the Gexf  *)
(* object of the first call once a second one is made                      *)
UnitConvert(cfg) == [fn |-> "convert", config0 |-> cfg, run |-> 1, doc1 |-> NoGexf]

----------------------------------------------------------------------------
(* convert: the promise chain.  pc is the step the conversion waits for:   *)
(* a callback of fs or csv, or a handler of the chain.  io is the trace of *)
(* the calls to fs, csv and gexf and of the settlements of the promises of *)
(* loadCSV, createGexf and saveGexf.                                       *)

Table1(isNodeSchema) == IF isNodeSchema THEN "nodes" ELSE "edges"
tableConfig(cfg, isNodeSchema) == IF isNodeSchema THEN cfg.nodes ELSE cfg.edges
resolvePath(file) == <<"/cwd/", file>>

(* a chain that runs the next then handler whatever the outcome *)
handlerOfAny(p, onFulfilled) == onFulfilled

(* p.then(onFulfilled) ... .catch(onRejected): the handler a settled     *)
(* promise of the chain runs next                                          *)
handlerOf(p, onFulfilled) ==
    IF p.state = "rejected" THEN "catch" ELSE onFulfilled

Init ==
    /\ pc = "start"
    /\ config \in Configs
    /\ files \in [nodes : FileStates, edges : FileStates, out : {VNone}]
    /\ nodeRecords = NoTable
    /\ edgeRecords = NoTable
    /\ gexfObj = NoGexf
    /\ chain = Pending
    /\ promise = Pending
    /\ console = <<>>
    /\ io = <<>>
    /\ unit = UnitConvert(config)

(* convert(config): loadCSV(config.nodes, true) issues the read *)
convert ==
    /\ pc = "start"
    /\ io' = Append(io, <<"readFile", "nodes">>)
    /\ pc' = "nodes.readFile"
    /\ UNCHANGED <<config, files, nodeRecords, edgeRecords, gexfObj, chain,
                   promise, console, unit>>

(* the callback of fs.readFile in loadCSV (lines 816-822) *)
readFileCb(isNodeSchema) ==
    LET t == Table1(isNodeSchema)
        file == files[t]
        cfg == tableConfig(config, isNodeSchema)
    IN
    /\ pc = t \o ".readFile"
    /\ IF file.status = "ENOENT"
       THEN /\ chain' = reject(Pending, VErr(StringError(
                   <<"Failed to read ">> \o resolvePath(cfg.file)
                   \o <<". ", "Error: ", file.status>>)))
            /\ pc' = handlerOf(chain', "then." \o t)
            /\ io' = Append(io, <<"loadCSV." \o t, "rejected">>)
            /\ UNCHANGED config
       ELSE /\ config' = IF isNodeSchema
                         THEN [config EXCEPT !.nodes.parseOptions.columns = TRUE]
                         ELSE [config EXCEPT !.edges.parseOptions.columns = TRUE]
            /\ io' = Append(io, <<"csv.parse", t>>)
            /\ pc' = t \o ".csvParse"
            /\ chain' = Pending
    /\ UNCHANGED <<files, nodeRecords, edgeRecords, gexfObj, promise, console, unit>>

(* the callback of csv.parse in loadCSV (lines 822-831) *)
csvParseCb(isNodeSchema) ==
    LET t == Table1(isNodeSchema)
        file == files[t]
        cfg == tableConfig(config, isNodeSchema)
        r == loadRecords(file.table, cfg.schema, isNodeSchema)
    IN
    /\ pc = t \o ".csvParse"
    /\ IF file.status = "malformed"
       THEN /\ chain' = reject(Pending, VErr(StringError(
                   <<"Failed to parse the csv data in ">> \o resolvePath(cfg.file)
                   \o <<". ", "Error: ", file.status>>)))
            /\ pc' = handlerOf(chain', "then." \o t)
            /\ io' = Append(io, <<"loadCSV." \o t, "rejected">>)
            /\ UNCHANGED config
       ELSE /\ chain' = r.promise
            /\ config' = IF isNodeSchema
                         THEN [config EXCEPT !.nodes.schema = r.schema]
                         ELSE [config EXCEPT !.edges.schema = r.schema]
            /\ pc' = handlerOf(r.promise, "then." \o t)
            /\ io' = Append(io, <<"loadCSV." \o t, r.promise.state>>)
    /\ UNCHANGED <<files, nodeRecords, edgeRecords, gexfObj, promise, console, unit>>

(* the first then handler (lines 777-780) *)
thenNodes ==
    /\ pc = "then.nodes"
    /\ nodeRecords' = chain.value.recs
    /\ io' = Append(io, <<"readFile", "edges">>)
    /\ chain' = Pending
    /\ pc' = "edges.readFile"
    /\ UNCHANGED <<config, files, edgeRecords, gexfObj, promise, console, unit>>

(* the second then handler (lines 781-785), which runs createGexf *)
thenEdges ==
    /\ pc = "then.edges"
    /\ \E libFail \in 0..(1 + Len(nodeRecords.rows) + Len(chain.value.recs.rows)) :
         LET r == createGexf(nodeRecords, chain.value.recs, config, libFail) IN
         /\ edgeRecords' = chain.value.recs
         /\ config' = r.config
         /\ gexfObj' = r.gexfObj
         /\ console' = console \o r.logged
         /\ io' = io \o <<(<<"gexf.create", "">>), (<<"createGexf", r.promise.state>>)>>
         /\ chain' = r.promise
         /\ pc' = handlerOf(r.promise, "then.gexf")
    /\ UNCHANGED <<files, nodeRecords, promise, unit>>

(* the third then handler (lines 786-791) and the executor of saveGexf *)
thenGexf ==
    /\ pc = "then.gexf"
    /\ IF config.saveAs # Undefined
       THEN \E serializeThrows \in BOOLEAN :
              IF serializeThrows
              THEN /\ chain' = reject(Pending, VErr(GexfError))
                   /\ pc' = handlerOf(chain', "done")
                   /\ io' = Append(io, <<"saveGexf", "rejected">>)
                   /\ UNCHANGED promise
              ELSE /\ io' = Append(io, <<"writeFile", config.saveAs>>)
                   /\ chain' = Pending
                   /\ pc' = "writeFile"
                   /\ UNCHANGED promise
       ELSE /\ chain' = resolve(Pending, chain.value)
            /\ promise' = resolve(promise, chain.value)
            /\ pc' = "done"
            /\ UNCHANGED io
    /\ UNCHANGED <<config, files, nodeRecords, edgeRecords, gexfObj, console, unit>>

(* what saveGexf resolves to (line 1132) *)
saveGexfResult(g, path) == VDoc(g)

(* the callback of fs.writeFile in saveGexf (lines 1130-1133) *)
writeFileCb ==
    /\ pc = "writeFile"
    /\ \E err \in {"none", "EACCES"} :
         IF err # "none"
         THEN /\ chain' = reject(Pending, VErr(StringError(
                     <<"Failed to save the Gexf file. ${err}">>)))
              /\ pc' = handlerOf(chain', "done")
              /\ io' = Append(io, <<"saveGexf", "rejected">>)
              /\ UNCHANGED <<files, promise>>
         ELSE /\ files' = [files EXCEPT !.out = VDoc(gexfObj)]
              /\ chain' = resolve(Pending, saveGexfResult(gexfObj, config.saveAs))
              /\ promise' = resolve(promise, saveGexfResult(gexfObj, config.saveAs))
              /\ pc' = handlerOf(chain', "done")
              /\ io' = Append(io, <<"saveGexf", "fulfilled">>)
    /\ UNCHANGED <<config, nodeRecords, edgeRecords, gexfObj, console, unit>>

(* a catch handler that rejects with a new error *)
catchHandlerWrap ==
    /\ pc = "catch"
    /\ console' = Append(console, chain.value)
    /\ promise' = reject(promise, VErr(Error(<<"Conversion failed: ">>
                                              \o chain.value.err.message)))
    /\ pc' = "done"
    /\ UNCHANGED <<config, files, nodeRecords, edgeRecords, gexfObj, chain, io, unit>>

(* the catch handler (lines 792-795) *)
catchHandler ==
    /\ pc = "catch"
    /\ console' = Append(console, chain.value)
    /\ promise' = reject(promise, chain.value)
    /\ pc' = "done"
    /\ UNCHANGED <<config, files, nodeRecords, edgeRecords, gexfObj, chain, io, unit>>

Next ==
    \/ convert
    \/ \E isNodeSchema \in BOOLEAN : readFileCb(isNodeSchema)
    \/ \E isNodeSchema \in BOOLEAN : csvParseCb(isNodeSchema)
    \/ thenNodes
    \/ thenEdges
    \/ thenGexf
    \/ writeFileCb
    \/ catchHandler

Spec == Init /\ [][Next]_vars

----------------------------------------------------------------------------
(* convert called a second time with the configuration object that a first *)
(* conversion which resolved has left, the nodes and edges files being     *)
(* what they were.                                                         *)

InitRepeat ==
    /\ Init
    /\ files.nodes.status = "csv" /\ HasFirst(files.nodes.table)
    /\ files.edges.status = "csv" /\ HasFirst(files.edges.table)

convertAgain ==
    /\ pc = "done"
    /\ promise.state = "fulfilled"
    /\ unit.run = 1
    /\ unit' = [unit EXCEPT !.run = 2, !.doc1 = gexfObj]
    /\ io' = << <<"readFile", "nodes">> >>
    /\ pc' = "nodes.readFile"
    /\ nodeRecords' = NoTable
    /\ edgeRecords' = NoTable
    /\ gexfObj' = NoGexf
    /\ chain' = Pending
    /\ promise' = Pending
    /\ console' = <<>>
    /\ UNCHANGED <<config, files>>

NextRepeat == Next \/ convertAgain

SpecRepeat == InitRepeat /\ [][NextRepeat]_vars

----------------------------------------------------------------------------
(* The functions on their own: a call of checkSchema, of addNodes or of    *)
(* addEdges on arguments drawn from bounded sets.  unit holds the          *)
(* arguments as passed (schema0, records0), the objects as the call leaves *)
(* them (schema, records), the exception and the Gexf object.              *)

SchemaEls ==
    {Marker(m) : m \in {"id", "label", "source", "target", "foo"}}
    \cup {Obj("attributes", i, t, "float") : i \in {Undefined, "id"},
                                              t \in {Undefined, "Title"}}
    \cup {Obj("attributes", "source", Undefined, "string"),
          Obj("attributes", Undefined, Undefined, Undefined),
          Obj("viz", "size", Undefined, Undefined),
          Obj("viz", "thickness", Undefined, Undefined),
          Obj("viz", Undefined, Undefined, Undefined),
          Obj("other", Undefined, Undefined, Undefined),
          NumberEl, NullEl}

SchemasOf(els, n) == [1..n -> els]
Schemas == UNION {SchemasOf(SchemaEls, n) : n \in 0..MaxLen}

UnitOf(fn, isNodeSchema, records, schema) ==
    [fn |-> fn, isNodeSchema |-> isNodeSchema, records0 |-> records,
     records |-> records, schema0 |-> schema, schema |-> schema,
     done |-> FALSE, thrown |-> NoError, gexfObj |-> NoGexf, libFail |-> 0,
     again |-> FALSE, thrown2 |-> NoError, schema2 |-> schema]

Idle ==
    /\ pc = "unit"
    /\ config = ConfigOf(NoModel, <<Marker("id"), Marker("label")>>,
                         <<Marker("source"), Marker("target")>>, Undefined)
    /\ files = [nodes |-> NoFile, edges |-> NoFile, out |-> VNone]
    /\ nodeRecords = NoTable
    /\ edgeRecords = NoTable
    /\ gexfObj = NoGexf
    /\ chain = Pending
    /\ promise = Pending
    /\ console = <<>>
    /\ io = <<>>

InitCheckSchema ==
    /\ Idle
    /\ unit \in {UnitOf("checkSchema", k, FileTable(nc, 1, FALSE), sc) :
                    k \in BOOLEAN, nc \in 1..MaxCols, sc \in Schemas}

callCheckSchema ==
    /\ unit.fn = "checkSchema"
    /\ ~unit.done
    /\ LET r == checkSchema(unit.records, unit.schema, unit.isNodeSchema) IN
       unit' = [unit EXCEPT !.done = TRUE, !.thrown = r.thrown, !.schema = r.schema]
    /\ UNCHANGED <<pc, config, files, nodeRecords, edgeRecords, gexfObj, chain,
                   promise, console, io>>

(* checkSchema once more, on the same records and on the schema that a    *)
(* first call which returned normally has left                             *)
recallCheckSchema ==
    /\ unit.fn = "checkSchema"
    /\ unit.done
    /\ unit.thrown = NoError
    /\ ~unit.again
    /\ LET r == checkSchema(unit.records, unit.schema, unit.isNodeSchema) IN
       unit' = [unit EXCEPT !.again = TRUE, !.thrown2 = r.thrown,
                            !.schema2 = r.schema]
    /\ UNCHANGED <<pc, config, files, nodeRecords, edgeRecords, gexfObj, chain,
                   promise, console, io>>

NextCheckSchema == callCheckSchema \/ recallCheckSchema

SpecCheckSchema == InitCheckSchema /\ [][NextCheckSchema]_vars

(* addNodes and addEdges run on what a successful loadCSV hands on: the    *)
(* coerced records and the schema as checkSchema and parseValues left it   *)
Loaded(isNodeSchema, table, schema) == loadRecords(table, schema, isNodeSchema)

(* the elements checkSchema accepts for a table, and the schemas of n of   *)
(* them that a load accepts                                                *)
AcceptedEls(isNodeSchema) ==
    {el \in SchemaEls \cup {Marker("weight")} :
        checkColumn(el, "c1", isNodeSchema).thrown = NoError}
LoadableSchemas(isNodeSchema, n) ==
    {sc \in SchemasOf(AcceptedEls(isNodeSchema), n) :
        checkRequired(sc, isNodeSchema) = NoError}

InitAssemble ==
    /\ Idle
    /\ \E k \in BOOLEAN, t \in {u \in FileTables : HasFirst(u)} :
         \E sc \in LoadableSchemas(k, Len(t.headers)) :
            /\ Loaded(k, t, sc).promise.state = "fulfilled"
            /\ unit = UnitOf(IF k THEN "addNodes" ELSE "addEdges", k,
                             Loaded(k, t, sc).records, Loaded(k, t, sc).schema)

(* addNodes(gexfObj, records, config) on a new Gexf object *)
callAddNodes ==
    /\ unit.fn = "addNodes"
    /\ ~unit.done
    /\ \E libFail \in 0..Len(unit.records.rows) :
         LET created == [NoGexf EXCEPT !.created = TRUE]
             r == addNodes(created, unit.records, unit.schema, 0, libFail)
         IN  unit' = [unit EXCEPT !.done = TRUE, !.thrown = r.thrown,
                                  !.gexfObj = r.gexfObj, !.libFail = libFail]
    /\ UNCHANGED <<pc, config, files, nodeRecords, edgeRecords, gexfObj, chain,
                   promise, console, io>>

(* addEdges(gexfObj, records, config) on a new Gexf object *)
callAddEdges ==
    /\ unit.fn = "addEdges"
    /\ ~unit.done
    /\ \E libFail \in 0..Len(unit.records.rows) :
         LET created == [NoGexf EXCEPT !.created = TRUE]
             r == addEdges(created, unit.records, unit.schema, 0, libFail)
         IN  unit' = [unit EXCEPT !.done = TRUE, !.thrown = r.thrown,
                                  !.gexfObj = r.gexfObj, !.libFail = libFail]
    /\ UNCHANGED <<pc, config, files, nodeRecords, edgeRecords, gexfObj, chain,
                   promise, console, io>>

NextAssemble == callAddNodes \/ callAddEdges

SpecAssemble == InitAssemble /\ [][NextAssemble]_vars

----------------------------------------------------------------------------
(* The load of a table on its own: checkSchema and parseValues as the       *)
(* callback of csv.parse runs them, on a schema that checkSchema accepts    *)
(* (the required markers, then any accepted elements) and a table whose     *)
(* last column holds texts of CellTexts, one after the other from a         *)
(* starting text on.                                                        *)

CellTexts ==
    << <<"t", "r", "u", "e">>, <<"T", "R", "U", "E">>, <<"1">>, <<"0">>,
       <<"y", "e", "s">>, <<>>, <<"f", "a", "l", "s", "e">>, <<"T", "r", "u", "e">>,
       <<"d", "i", "r", "e", "c", "t", "e", "d">>,
       <<"u", "n", "d", "i", "r", "e", "c", "t", "e", "d">>,
       <<"m", "u", "t", "u", "a", "l">>,
       <<"h", "e", "x", "a", "g", "o", "n">>,
       <<"s", "o", "l", "i", "d">>, <<"d", "o", "t", "t", "e", "d">>,
       <<"d", "a", "s", "h", "e", "d">>,
       <<"d", "i", "s", "c">>, <<"s", "q", "u", "a", "r", "e">>,
       <<"t", "r", "i", "a", "n", "g", "l", "e">>,
       <<"1", ".", "5">>, <<"1", "2">>, <<"x", "1">>, <<"-", "3">>,
       <<"7", "x">>, <<".">> >>

CellText(start, r) == Text(CellTexts[((start + r - 2) % Len(CellTexts)) + 1])

LoadTable(nc, nr, start) ==
    Table(Headers(nc),
          [r \in 1..nr |->
              [c \in 1..nc |-> IF c = nc THEN CellText(start, r)
                               ELSE FileCell(r, c, nr, FALSE)]])

RequiredMarkers(isNodeSchema) ==
    IF isNodeSchema THEN <<Marker("id")>> ELSE <<Marker("source"), Marker("target")>>

LoadEls(isNodeSchema) ==
    {el \in {Marker("label"), Marker("weight"), Marker("type"),
             VizEl("size"), VizEl("thickness"), VizEl("shape"),
             Obj("viz", "size", Undefined, "integer"),
             Obj("viz", "thickness", Undefined, "integer")}
            \cup {AttrEl(Undefined, t) : t \in attributeTypes} :
        checkColumn(el, "c1", isNodeSchema).thrown = NoError}

InitLoad ==
    /\ Idle
    /\ \E k \in BOOLEAN, nr \in 1..MaxRows, start \in 1..Len(CellTexts) :
         \E f \in 0..(MaxCols - Len(RequiredMarkers(k))) :
            \E els \in SchemasOf(LoadEls(k), f) :
               unit = UnitOf("loadCSV", k,
                             LoadTable(Len(RequiredMarkers(k)) + f, nr, start),
                             RequiredMarkers(k) \o els)

(* the try block of the callback of csv.parse (lines 825-830) *)
callLoadCSV ==
    /\ unit.fn = "loadCSV"
    /\ ~unit.done
    /\ LET r == loadRecords(unit.records, unit.schema, unit.isNodeSchema) IN
       unit' = [unit EXCEPT !.done = TRUE,
                            !.thrown = IF r.promise.state = "rejected"
                                       THEN r.promise.value.err ELSE NoError,
                            !.records = r.records, !.schema = r.schema]
    /\ UNCHANGED <<pc, config, files, nodeRecords, edgeRecords, gexfObj, chain,
                   promise, console, io>>

NextLoad == callLoadCSV

SpecLoad == InitLoad /\ [][NextLoad]_vars

----------------------------------------------------------------------------
(* Properties of convert *)

InIo(e) == \E i \in DOMAIN io : io[i] = e
Before(e, i) == \E j \in 1..(i - 1) : io[j] = e
Issued(callee) == \E i \in DOMAIN io : io[i][1] = callee
Succeeded == pc = "done" /\ promise.state = "fulfilled"
Failed == pc = "done" /\ promise.state = "rejected"

(* C1: a conversion whose stages all succeed resolves to the destination   *)
(* path, the document being written there, when config.saveAs is set, and  *)
(* to the Gexf object when it is not.                                      *)
C1_ResolvesToPathOrGexf ==
    Succeeded =>
        IF config.saveAs # Undefined
        THEN promise.value = VPath(config.saveAs) /\ files.out = VDoc(gexfObj)
        ELSE promise.value = VDoc(gexfObj)

(* C2: the edges file is read only after the node load has succeeded, the  *)
(* Gexf object is created only after the edge load has succeeded, the      *)
(* destination is written only after createGexf has succeeded, and the two *)
(* loads are never in flight together.                                     *)
InFlight(t) ==
    /\ InIo(<<"readFile", t>>)
    /\ ~InIo(<<"loadCSV." \o t, "fulfilled">>)
    /\ ~InIo(<<"loadCSV." \o t, "rejected">>)

C2_StagesOrdered ==
    /\ \A i \in DOMAIN io :
         /\ io[i] = <<"readFile", "edges">> =>
              /\ Before(<<"loadCSV.nodes", "fulfilled">>, i)
              /\ HasFirst(nodeRecords)
              /\ nodeRecords = parseValues(files.nodes.table, config.nodes.schema,
                                           TRUE).records
         /\ io[i] = <<"gexf.create", "">> =>
              /\ Before(<<"loadCSV.edges", "fulfilled">>, i)
              /\ HasFirst(edgeRecords)
              /\ edgeRecords = parseValues(files.edges.table, config.edges.schema,
                                           FALSE).records
         /\ io[i][1] = "writeFile" =>
              /\ Before(<<"createGexf", "fulfilled">>, i)
              /\ Len(gexfObj.nodes) = Len(nodeRecords.rows)
              /\ Len(gexfObj.edges) = Len(edgeRecords.rows)
    /\ ~(InFlight("nodes") /\ InFlight("edges"))

C2_Witness ==
    /\ Succeeded
    /\ InIo(<<"writeFile", "result.gexf">>)
    /\ Len(gexfObj.edges) > 1

(* C3: once a stage has failed no later stage is started, nothing is       *)
(* written, and convert rejects with the very value the stage rejected     *)
(* with.                                                                   *)
C3_FailureShortCircuits ==
    \A i \in DOMAIN io :
        io[i][2] = "rejected" =>
            /\ i = Len(io)
            /\ files.out = VNone
            /\ chain.state = "rejected"
            /\ pc \in {"catch", "done"}
            /\ pc = "done" => promise = [state |-> "rejected", value |-> chain.value]
            /\ io[i][1] = "loadCSV.nodes" =>
                 ~InIo(<<"readFile", "edges">>) /\ ~gexfObj.created
            /\ io[i][1] \in {"loadCSV.nodes", "loadCSV.edges", "createGexf"} =>
                 ~Issued("writeFile")

C3_Witness ==
    /\ Failed
    /\ InIo(<<"loadCSV.edges", "rejected">>)
    /\ config.saveAs # Undefined
    /\ promise.value.err.name = "Error"

(* C4: a failing conversion logs its error exactly once, a successful one  *)
(* logs nothing.                                                           *)
C4_LoggedExactlyOnce ==
    /\ Failed => Len(console) = 1
    /\ Succeeded => Len(console) = 0

(* C5: when gexf.create, addNode or addEdge throws, the promise of         *)
(* createGexf is rejected with that exception and so is convert; the       *)
(* partially populated Gexf object is never the result and no destination  *)
(* file is written.                                                        *)
C5_AssemblyFailureRejects ==
    \A i \in DOMAIN console :
        console[i].tag = "stack" =>
            /\ chain = [state |-> "rejected", value |-> VErr(console[i].err)]
            /\ InIo(<<"createGexf", "rejected">>)
            /\ ~Issued("writeFile")
            /\ files.out = VNone
            /\ pc = "done" =>
                 promise = [state |-> "rejected", value |-> VErr(console[i].err)]

C5_Witness ==
    /\ Failed
    /\ config.saveAs # Undefined
    /\ \E i \in DOMAIN console : console[i] = VStack(GexfError)
    /\ Len(gexfObj.nodes) > 0

MessageHas(err, piece) == \E j \in DOMAIN err.message : err.message[j] = piece
ReadFailed(t) == InIo(<<"loadCSV." \o t, "rejected">>) /\ files[t].status = "ENOENT"
WriteFailed == Issued("writeFile") /\ InIo(<<"saveGexf", "rejected">>)

(* C17: when the read of the nodes file or of the edges file fails, or the *)
(* write of the destination fails, the conversion is rejected with a       *)
(* message that holds the path of that file and the cause the file system  *)
(* reported.                                                               *)
C17_IoErrorNamesPathAndCause ==
    /\ \A t \in {"nodes", "edges"} :
          ReadFailed(t) =>
              /\ chain.state = "rejected"
              /\ MessageHas(chain.value.err, config[t].file)
              /\ MessageHas(chain.value.err, files[t].status)
    /\ WriteFailed =>
          /\ chain.state = "rejected"
          /\ MessageHas(chain.value.err, config.saveAs)
          /\ MessageHas(chain.value.err, "EACCES")

IdColumn(schema, m) == CHOOSE i \in DOMAIN schema : schema[i] = Marker(m)

(* C24: a createGexf that succeeds has added one node per node record and  *)
(* one edge per edge record, the first records included, in the order of   *)
(* the records; and in every state the nodes added are the first records   *)
(* of the node table and an edge is present only when every node is.       *)
C24_OneEntryPerRecord ==
    /\ InIo(<<"createGexf", "fulfilled">>) =>
          /\ Len(gexfObj.nodes) = Len(nodeRecords.rows)
          /\ Len(gexfObj.edges) = Len(edgeRecords.rows)
    /\ Len(gexfObj.nodes) <= Len(nodeRecords.rows)
    /\ Len(gexfObj.edges) <= Len(edgeRecords.rows)
    /\ Len(gexfObj.edges) > 0 => Len(gexfObj.nodes) = Len(nodeRecords.rows)
    /\ \A k \in DOMAIN gexfObj.nodes :
          gexfObj.nodes[k].id =
              nodeRecords.rows[k][IdColumn(config.nodes.schema, "id")]
    /\ \A k \in DOMAIN gexfObj.edges :
          gexfObj.edges[k].source =
              edgeRecords.rows[k][IdColumn(config.edges.schema, "source")]

C24_Witness ==
    /\ Succeeded
    /\ Len(gexfObj.nodes) = MaxRows
    /\ Len(gexfObj.edges) = MaxRows
    /\ gexfObj.nodes[1].id = Text(<<"n", "1">>)
    /\ gexfObj.nodes[2].id = Text(<<"n", "2">>)
    /\ gexfObj.edges[1].source = Text(<<"n", "1">>)

(* C26: from the call of gexf.create on, config.graphParams is what the    *)
(* caller passed with the model replaced by the one derived from the two   *)
(* schemas, whatever model the caller gave, and the Gexf object is created *)
(* with these parameters.                                                  *)
C26_ModelAlwaysDerived ==
    Issued("gexf.create") =>
        /\ config.graphParams =
              [unit.config0.graphParams EXCEPT !.model =
                  [given |-> TRUE, node |-> deriveModel(config.nodes.schema),
                   edge |-> deriveModel(config.edges.schema)]]
        /\ gexfObj.created => gexfObj.params = config.graphParams

C26_Witness ==
    /\ Succeeded
    /\ unit.config0.graphParams.model = CallerModel
    /\ gexfObj.params.model.given
    /\ gexfObj.params.model.node = <<>>
    /\ Len(gexfObj.params.model.edge) = 1
    /\ gexfObj.params.meta = "An example graph."

Parsed(t) == InIo(<<"loadCSV." \o t, "fulfilled">>) \/ InIo(<<"loadCSV." \o t, "rejected">>)
EmptyTable(t) == files[t].status = "csv" /\ ~HasFirst(files[t].table)

(* C30: when the parser gives no record for a table the load of the table  *)
(* rejects and so does convert; a conversion that resolves has at least    *)
(* one node and one edge.                                                  *)
C30_EmptyTableRejects ==
    /\ \A t \in {"nodes", "edges"} :
          (Parsed(t) /\ EmptyTable(t)) =>
              /\ InIo(<<"loadCSV." \o t, "rejected">>)
              /\ ~gexfObj.created
              /\ pc = "done" => promise.state = "rejected"
    /\ Succeeded => Len(gexfObj.nodes) > 0 /\ Len(gexfObj.edges) > 0

C30_Witness ==
    /\ Failed
    /\ HasFirst(files.nodes.table)
    /\ EmptyTable("edges")
    /\ Len(files.edges.table.headers) = 2
    /\ promise.value = VErr(NoRecordError)

(* C28: a second convert with the configuration object of a first one     *)
(* that resolved loads both tables again, and when its createGexf succeeds *)
(* the Gexf object equals that of the first conversion.                    *)
C28_RepeatSucceeds ==
    unit.run = 2 =>
        /\ ~InIo(<<"loadCSV.nodes", "rejected">>)
        /\ ~InIo(<<"loadCSV.edges", "rejected">>)
        /\ InIo(<<"createGexf", "fulfilled">>) => gexfObj = unit.doc1

----------------------------------------------------------------------------
(* Properties of checkSchema *)

Checked == unit.fn = "checkSchema" /\ unit.done
NCols == Len(unit.records0.headers)
SameLength == Len(unit.schema0) = NCols
HasMarker(schema, m) == \E i \in DOMAIN schema : schema[i] = Marker(m)

(* C6: when the number of columns differs from the number of schema        *)
(* elements, checkSchema throws an error whose message states both counts, *)
(* whatever the schema elements are.                                       *)
C6_LengthMismatchFails ==
    (Checked /\ ~SameLength) =>
        /\ unit.thrown.name = "Error"
        /\ unit.thrown.message =
             <<"There are ">> \o Str(NCols) \o <<" columns and ">>
             \o Str(Len(unit.schema0)) \o <<" schema elements", " ">>
             \o ctxtOf(unit.isNodeSchema) \o <<". These numbers should be equal.">>

C6_Witness ==
    /\ Checked
    /\ NCols = 2
    /\ Len(unit.schema0) = 3
    /\ unit.schema0[1] = Marker("id")
    /\ unit.thrown.name = "Error"

(* C7: a node schema of the right length without the marker 'id' fails,    *)
(* an edge schema of the right length without the marker 'source' or       *)
(* without the marker 'target' fails; an object whose id is 'id', 'source' *)
(* or 'target' is not the marker.                                          *)
C7_MissingMarkerFails ==
    (Checked /\ SameLength) =>
        /\ (unit.isNodeSchema /\ ~HasMarker(unit.schema0, "id")) =>
              unit.thrown # NoError
        /\ (~unit.isNodeSchema /\ ( \/ ~HasMarker(unit.schema0, "source")
                                    \/ ~HasMarker(unit.schema0, "target") )) =>
              unit.thrown # NoError

C7_Witness ==
    /\ Checked
    /\ SameLength
    /\ unit.isNodeSchema
    /\ ~HasMarker(unit.schema0, "id")
    /\ \A i \in DOMAIN unit.schema0 :
          unit.schema0[i].kind = "object" /\ unit.schema0[i].target = "attributes"
          /\ unit.schema0[i].type \in attributeTypes
    /\ \E i \in DOMAIN unit.schema0 : unit.schema0[i].id = "id"
    /\ unit.thrown = MissingError("id", TRUE)

(* the schema elements the documentation allows for a table *)
ValidEl(el, isNodeSchema) ==
    \/ /\ el.kind = "string"
       /\ el.str \in (IF isNodeSchema THEN nodeStringSpecs ELSE edgeStringSpecs)
    \/ /\ el.kind = "object"
       /\ el.target = "attributes"
       /\ el.type \in attributeTypes
    \/ /\ el.kind = "object"
       /\ el.target = "viz"
       /\ el.id \in (IF isNodeSchema THEN nodeVizIds ELSE edgeVizIds)

ValidSchema(schema, isNodeSchema) ==
    /\ \A i \in DOMAIN schema : ValidEl(schema[i], isNodeSchema)
    /\ isNodeSchema => HasMarker(schema, "id")
    /\ ~isNodeSchema => HasMarker(schema, "source") /\ HasMarker(schema, "target")

IdAfter(el, header) == IF el.id = Undefined THEN header ELSE el.id
TitleAfter(el, header) == IF el.title = Undefined THEN IdAfter(el, header) ELSE el.title

(* C8: on a valid schema with one element per column checkSchema returns   *)
(* normally, and every 'attributes' element then has the id the caller     *)
(* gave, or the header of its column when none was given, and the title    *)
(* the caller gave, or that id when none was given.                        *)
C8_DefaultsFilled ==
    (Checked /\ SameLength /\ ValidSchema(unit.schema0, unit.isNodeSchema)) =>
        /\ unit.thrown = NoError
        /\ \A i \in DOMAIN unit.schema0 :
              (unit.schema0[i].kind = "object"
               /\ unit.schema0[i].target = "attributes") =>
                  /\ unit.schema[i].id =
                        IdAfter(unit.schema0[i], unit.records0.headers[i])
                  /\ unit.schema[i].title =
                        TitleAfter(unit.schema0[i], unit.records0.headers[i])

C8_Witness ==
    /\ Checked
    /\ unit.thrown = NoError
    /\ Len(unit.schema0) = 3
    /\ unit.schema0[2] = Obj("attributes", Undefined, Undefined, "float")
    /\ unit.schema[2] = Obj("attributes", "c2", "c2", "float")
    /\ unit.schema0[3] = Obj("attributes", "id", Undefined, "float")
    /\ unit.schema[3] = Obj("attributes", "id", "id", "float")

Invalid(i) == ~ValidEl(unit.schema0[i], unit.isNodeSchema)
FirstInvalid == CHOOSE i \in DOMAIN unit.schema0 :
                    Invalid(i) /\ \A j \in 1..(i - 1) : ~Invalid(j)
RequiredPresent ==
    IF unit.isNodeSchema THEN HasMarker(unit.schema0, "id")
    ELSE HasMarker(unit.schema0, "source") /\ HasMarker(unit.schema0, "target")

(* C19: checkSchema reports the first violated rule in the order: the      *)
(* number of columns; the required markers, for edges 'source' before      *)
(* 'target'; the columns from the first to the last.  It returns normally  *)
(* when no rule is violated.                                               *)
C19_ChecksInOrder ==
    Checked =>
        IF ~SameLength
        THEN unit.thrown = LengthError(NCols, Len(unit.schema0), unit.isNodeSchema)
        ELSE IF unit.isNodeSchema /\ ~HasMarker(unit.schema0, "id")
        THEN unit.thrown = MissingError("id", TRUE)
        ELSE IF ~unit.isNodeSchema /\ ~HasMarker(unit.schema0, "source")
        THEN unit.thrown = MissingError("source", FALSE)
        ELSE IF ~unit.isNodeSchema /\ ~HasMarker(unit.schema0, "target")
        THEN unit.thrown = MissingError("target", FALSE)
        ELSE IF \E i \in DOMAIN unit.schema0 : Invalid(i)
        THEN /\ unit.thrown # NoError
             /\ unit.thrown = checkColumn(unit.schema0[FirstInvalid],
                                          unit.records0.headers[FirstInvalid],
                                          unit.isNodeSchema).thrown
        ELSE unit.thrown = NoError

C19_Witness ==
    /\ Checked
    /\ SameLength
    /\ ~unit.isNodeSchema
    /\ Len(unit.schema0) = 3
    /\ unit.schema0[1] = NumberEl
    /\ unit.schema0[2] = Marker("foo")
    /\ unit.schema0[3] = Marker("id")
    /\ unit.thrown = MissingError("source", FALSE)

(* the value of an invalid element that the message of the error is to     *)
(* name: the string, the type of an 'attributes' element, the id of a      *)
(* 'viz' element, the target of another object                            *)
Offending(el) ==
    IF el.kind # "object" \/ el = NullEl THEN el.str
    ELSE IF el.target = "attributes" THEN el.type
    ELSE IF el.target = "viz" THEN el.id
    ELSE el.target

(* C20: checkSchema returns normally only when every element is valid for  *)
(* the table kind, and on a schema of the right length with the required   *)
(* markers and an invalid element it throws an Error whose message names   *)
(* the value of the first invalid element (or says that the id of a 'viz'  *)
(* element is missing).                                                    *)
C20_OnlyValidSchemasPass ==
    Checked =>
        /\ unit.thrown = NoError =>
              \A i \in DOMAIN unit.schema0 : ValidEl(unit.schema0[i], unit.isNodeSchema)
        /\ (SameLength /\ RequiredPresent /\ \E i \in DOMAIN unit.schema0 : Invalid(i)) =>
              /\ unit.thrown.name = "Error"
              /\ \/ MessageHas(unit.thrown, Offending(unit.schema0[FirstInvalid]))
                 \/ MessageHas(unit.thrown, "The id is missing for a 'viz' element ")

Rechecked == Checked /\ unit.again

(* C21: a second call of checkSchema, on the same records and on the       *)
(* schema that a first call left when it returned normally, returns        *)
(* normally too and changes no schema element.                             *)
C21_CheckSchemaIdempotent ==
    Rechecked =>
        /\ unit.thrown2 = NoError
        /\ unit.schema2 = unit.schema

C21_Witness ==
    /\ Rechecked
    /\ Len(unit.schema0) = 3
    /\ unit.schema0[2] = Obj("attributes", Undefined, Undefined, "float")
    /\ unit.schema0[3] = Obj("attributes", "id", "Title", "float")
    /\ unit.schema2[2] = Obj("attributes", "c2", "c2", "float")
    /\ unit.schema2[3] = unit.schema0[3]

(* the element differs from the one the caller passed in its id or in its  *)
(* title at most, and only when it is an 'attributes' element that had     *)
(* none                                                                    *)
OnlyDefaulted(i) ==
    \/ unit.schema[i] = unit.schema0[i]
    \/ /\ unit.schema0[i].kind = "object"
       /\ unit.schema0[i].target = "attributes"
       /\ unit.schema[i] = [unit.schema0[i] EXCEPT
                               !.id = IdAfter(unit.schema0[i], unit.records0.headers[i]),
                               !.title = TitleAfter(unit.schema0[i],
                                                    unit.records0.headers[i])]

(* C29: a checkSchema that throws in the check of the lengths or of the    *)
(* required markers leaves the schema as it was; one that throws at the    *)
(* column k leaves every element after k as it was, and has at most given  *)
(* the 'attributes' elements up to k their default id and title.           *)
C29_FailureLeavesLaterElements ==
    (Checked /\ unit.thrown # NoError) =>
        IF ~SameLength \/ ~RequiredPresent
        THEN unit.schema = unit.schema0
        ELSE /\ \E i \in DOMAIN unit.schema0 : Invalid(i)
             /\ \A i \in DOMAIN unit.schema0 :
                   /\ i > FirstInvalid => unit.schema[i] = unit.schema0[i]
                   /\ i <= FirstInvalid => OnlyDefaulted(i)

C29_Witness ==
    /\ Checked
    /\ unit.isNodeSchema
    /\ unit.schema0 = <<Marker("id"),
                        Obj("attributes", Undefined, Undefined, Undefined),
                        Obj("attributes", Undefined, Undefined, "float")>>
    /\ unit.schema[2] = Obj("attributes", "c2", "c2", Undefined)
    /\ unit.schema[3] = unit.schema0[3]
    /\ unit.thrown.name = "Error"

----------------------------------------------------------------------------
(* Properties of addNodes and addEdges *)

Added(fn) == unit.fn = fn /\ unit.done

(* C9: for a valid node table whose schema has no marker 'label' addNodes  *)
(* returns normally (the gexf package not throwing) and every node it adds *)
(* has its id as label.                                                    *)
C9_NodeLabelDefaultsToId ==
    (Added("addNodes") /\ ~HasMarker(unit.schema, "label") /\ unit.libFail = 0) =>
        /\ unit.thrown = NoError
        /\ Len(unit.gexfObj.nodes) = Len(unit.records.rows)
        /\ \A k \in DOMAIN unit.gexfObj.nodes :
              unit.gexfObj.nodes[k].label = unit.gexfObj.nodes[k].id

(* C10: without a marker 'id' in the edge schema the k-th edge, counted    *)
(* from 1 in input order, gets the id "e" followed by k, whatever the      *)
(* number of columns; without a marker 'label' the label of every edge is  *)
(* its id.                                                                 *)
C10_EdgeIdsSequential ==
    Added("addEdges") =>
        /\ unit.libFail = 0 =>
              unit.thrown = NoError
              /\ Len(unit.gexfObj.edges) = Len(unit.records.rows)
        /\ \A k \in DOMAIN unit.gexfObj.edges :
              /\ ~HasMarker(unit.schema, "id") =>
                    unit.gexfObj.edges[k].id = Text(<<"e">> \o Str(k))
              /\ ~HasMarker(unit.schema, "label") =>
                    unit.gexfObj.edges[k].label = unit.gexfObj.edges[k].id

C10_Witness ==
    /\ Added("addEdges")
    /\ ~HasMarker(unit.schema, "id")
    /\ ~HasMarker(unit.schema, "label")
    /\ Len(unit.records.headers) = 3
    /\ Len(unit.gexfObj.edges) = MaxRows
    /\ unit.gexfObj.edges[1].id = Text(<<"e", "1">>)
    /\ unit.gexfObj.edges[2].label = Text(<<"e", "2">>)

Entries == IF unit.fn = "addNodes" THEN unit.gexfObj.nodes ELSE unit.gexfObj.edges
Assembled == Added("addNodes") \/ Added("addEdges")

(* what the entry holds for the schema element el: the field of a marker,  *)
(* the value under the element's id in the attributes map                  *)
Holds(entry, el, cell) ==
    IF el.kind = "string"
    THEN cell = (CASE el.str = "id" -> entry.id
                   [] el.str = "label" -> entry.label
                   [] el.str = "type" -> entry.type
                   [] el.str = "source" -> entry.source
                   [] el.str = "target" -> entry.target
                   [] el.str = "weight" -> entry.weight)
    ELSE /\ entry.attributes.defined
         /\ el.id \in DOMAIN entry.attributes.map
         /\ entry.attributes.map[el.id] = cell

(* two columns that name the same field or the same attribute *)
SameKey(el1, el2) == el1.kind = el2.kind /\ el1.str = el2.str /\ el1.id = el2.id
LastOfKey(schema, i) == \A j \in (i + 1)..Len(schema) : ~SameKey(schema[i], schema[j])

(* C16: the k-th entry added holds, for every column of the schema that is *)
(* the last one of its marker or of its attribute id, the cell of that     *)
(* column in the k-th record, as the load coerced it: under the field of   *)
(* the marker, or in the attributes map under the id of the element.       *)
C16_EntriesFromRecords ==
    Assembled =>
        \A k \in DOMAIN Entries : \A i \in DOMAIN unit.schema :
            LastOfKey(unit.schema, i) =>
                Holds(Entries[k], unit.schema[i], unit.records.rows[k][i])

C16_Witness ==
    /\ Added("addNodes")
    /\ unit.schema = <<Marker("id"), Marker("label"),
                       Obj("attributes", "c3", "c3", "float")>>
    /\ Len(unit.gexfObj.nodes) = 2
    /\ unit.gexfObj.nodes[1] =
          [id |-> Text(<<"n", "1">>), label |-> Text(<<"n", "2">>),
           attributes |-> Put(NoMap, "c3", Num(15, 1)), viz |-> NoMap]

(* the statement of C16 for every column, also when a later column has the *)
(* same marker or the same attribute id                                    *)
C16_EveryColumnHeld ==
    Assembled =>
        \A k \in DOMAIN Entries : \A i \in DOMAIN unit.schema :
            Holds(Entries[k], unit.schema[i], unit.records.rows[k][i])

----------------------------------------------------------------------------
(* Properties of the Gexf object of a conversion *)

(* the elements the caller declared with the given target, in column order *)
DeclaredWith(schema, target) ==
    SelectSeq(schema, LAMBDA el : el.kind = "object" /\ el.target = target)

ModelMatches(model, schema) ==
    LET declared == DeclaredWith(schema, "attributes") IN
    /\ Len(model) = Len(declared)
    /\ \A j \in DOMAIN model :
          /\ j \in DOMAIN declared
          /\ model[j].type = declared[j].type
          /\ declared[j].id # Undefined => model[j].id = declared[j].id

(* C14: the attribute model of the Gexf object that a conversion resolves  *)
(* with has, for the nodes and for the edges, one entry per element that   *)
(* the caller's schema declares with target 'attributes', in column order, *)
(* with the type and the id the caller gave, and no other entry.           *)
C14_ModelOfAttributes ==
    Succeeded =>
        /\ gexfObj.params.model.given
        /\ ModelMatches(gexfObj.params.model.node, unit.config0.nodes.schema)
        /\ ModelMatches(gexfObj.params.model.edge, unit.config0.edges.schema)

(* the entry built from the record holds the cell of column i under the    *)
(* element's id in the map of the element's target and not in the other    *)
InMapOf(entry, el, header, cell) ==
    LET key == IF el.target = "attributes" THEN IdAfter(el, header) ELSE el.id
        own == IF el.target = "viz" THEN entry.viz ELSE entry.attributes
        other == IF el.target = "viz" THEN entry.attributes ELSE entry.viz
    IN  /\ own.defined
        /\ key \in DOMAIN own.map
        /\ own.map[key] = cell
        /\ ~(other.defined /\ key \in DOMAIN other.map)

EntriesMatch(entries, records, schema) ==
    \A k \in DOMAIN entries : \A i \in DOMAIN schema :
        (schema[i].kind = "object" /\ schema[i].target \in {"attributes", "viz"}) =>
            InMapOf(entries[k], schema[i], records.headers[i], records.rows[k][i])

(* C15: after a conversion that succeeds, every node and every edge of the *)
(* Gexf object holds the cell of a column the caller declared with target  *)
(* 'viz' in its viz map, under the element's id, and not in its attributes *)
(* map, and the cell of a column declared with target 'attributes' in its  *)
(* attributes map and not in its viz map.                                  *)
C15_VizAndAttributesMaps ==
    Succeeded =>
        /\ EntriesMatch(gexfObj.nodes, nodeRecords, unit.config0.nodes.schema)
        /\ EntriesMatch(gexfObj.edges, edgeRecords, unit.config0.edges.schema)

----------------------------------------------------------------------------
(* Properties of the load of a table *)

LoadDone == unit.fn = "loadCSV" /\ unit.done
LoadOk == LoadDone /\ unit.thrown = NoError
(* the text of the cell of row r and column i as the file gave it *)
CellText0(r, i) == unit.records0.rows[r][i].s
Rows == DOMAIN unit.records0.rows

(* "true" ignoring case, or exactly "1" *)
IsTrueText(s) ==
    \/ s = <<"1">>
    \/ /\ Len(s) = 4
       /\ s[1] \in {"t", "T"}
       /\ s[2] \in {"r", "R"}
       /\ s[3] \in {"u", "U"}
       /\ s[4] \in {"e", "E"}

(* C11: after a load, every cell of a column declared as an attribute of   *)
(* type 'boolean' is the boolean true when its text was "true" in any case *)
(* or exactly "1", and the boolean false for every other text.             *)
C11_BooleanParsed ==
    LoadOk =>
        \A i \in DOMAIN unit.schema0 :
            (unit.schema0[i].kind = "object"
             /\ unit.schema0[i].target = "attributes"
             /\ unit.schema0[i].type = "boolean") =>
                \A r \in Rows :
                    unit.records.rows[r][i] = Bool(IsTrueText(CellText0(r, i)))

C11_Witness ==
    /\ LoadOk
    /\ Len(unit.schema0) = 3
    /\ unit.schema0[3] = AttrEl(Undefined, "boolean")
    /\ Len(unit.records0.rows) = 2
    /\ CellText0(1, 3) = <<"T", "R", "U", "E">>
    /\ unit.records.rows[1][3] = Bool(TRUE)
    /\ CellText0(2, 3) = <<"1">>
    /\ unit.records.rows[2][3] = Bool(TRUE)
    /\ unit.records.rows[1][2] = Text(<<"n", "2">>)

InMessage(piece) == \E j \in DOMAIN unit.thrown.message : unit.thrown.message[j] = piece
IsEl(i, el) == i \in DOMAIN unit.schema0 /\ unit.schema0[i] = el
ColumnIn(i, texts) == \A r \in Rows : CellText0(r, i) \in texts

EdgeTypeTexts ==
    { <<"d", "i", "r", "e", "c", "t", "e", "d">>,
      <<"u", "n", "d", "i", "r", "e", "c", "t", "e", "d">>,
      <<"m", "u", "t", "u", "a", "l">> }

(* C12: an edge table with a column under the marker 'type' loads, the     *)
(* column unchanged, when every cell of the column is 'directed',          *)
(* 'undirected' or 'mutual', and its load fails with an Error whose        *)
(* message names the column when some cell is another text.                *)
C12_EdgeTypeAsserted ==
    (LoadDone /\ ~unit.isNodeSchema
       /\ \E i \in DOMAIN unit.schema0 : IsEl(i, Marker("type"))) =>
        IF \A i \in DOMAIN unit.schema0 :
               IsEl(i, Marker("type")) => ColumnIn(i, EdgeTypeTexts)
        THEN /\ unit.thrown = NoError
             /\ \A i \in DOMAIN unit.schema0 :
                   IsEl(i, Marker("type")) =>
                       \A r \in Rows : unit.records.rows[r][i] = unit.records0.rows[r][i]
        ELSE /\ unit.thrown.name = "Error"
             /\ \E i \in DOMAIN unit.schema0 :
                   /\ IsEl(i, Marker("type"))
                   /\ ~ColumnIn(i, EdgeTypeTexts)
                   /\ InMessage(unit.records0.headers[i])

NodeShapeTexts ==
    { <<"d", "i", "s", "c">>, <<"s", "q", "u", "a", "r", "e">>,
      <<"t", "r", "i", "a", "n", "g", "l", "e">>,
      <<"d", "i", "a", "m", "o", "n", "d">> }
EdgeShapeTexts ==
    { <<"s", "o", "l", "i", "d">>, <<"d", "o", "t", "t", "e", "d">>,
      <<"d", "a", "s", "h", "e", "d">>, <<"d", "o", "u", "b", "l", "e">> }
ShapeTexts(isNodeSchema) == IF isNodeSchema THEN NodeShapeTexts ELSE EdgeShapeTexts

(* C13: the load of a table with a column declared {target:'viz',          *)
(* id:'shape'} fails with an Error whose message names the column when     *)
(* some cell of the column is outside the shapes of the table kind, and    *)
(* succeeds when every cell is one of them (the schema having no 'type'    *)
(* column, which has a check of its own).                                  *)
C13_ShapeAsserted ==
    (LoadDone /\ \E i \in DOMAIN unit.schema0 : IsEl(i, VizEl("shape"))) =>
        IF \A i \in DOMAIN unit.schema0 :
               IsEl(i, VizEl("shape")) => ColumnIn(i, ShapeTexts(unit.isNodeSchema))
        THEN (\A i \in DOMAIN unit.schema0 : ~IsEl(i, Marker("type"))) =>
                 unit.thrown = NoError
        ELSE /\ unit.thrown.name = "Error"
             /\ \E i \in DOMAIN unit.schema0 :
                   /\ IsEl(i, VizEl("shape"))
                   /\ ~ColumnIn(i, ShapeTexts(unit.isNodeSchema))
                   /\ InMessage(unit.records0.headers[i])

(* the columns whose cells are parsed as numbers *)
NumericEl(el) ==
    \/ el = Marker("weight")
    \/ el.kind = "object" /\ el.target = "attributes" /\ el.type \in {"integer", "float"}
    \/ el.kind = "object" /\ el.target = "viz" /\ el.id \in {"size", "thickness"}
(* a text that starts no number *)
NoNumber(s) == Len(s) = 0 \/ ~(IsDigit(s[1]) \/ s[1] \in {"+", "-", "."})

(* C18: no record holds a not-a-number value after a load, and the load of *)
(* a table with a numeric column (marker 'weight', attribute of type       *)
(* 'integer' or 'float', viz 'size' or 'thickness') that has a cell which  *)
(* starts no number fails with an Error.                                   *)
C18_UnparseableNumberFails ==
    LoadDone =>
        /\ \A r \in Rows : \A i \in DOMAIN unit.schema0 :
               unit.records.rows[r][i] # NaN
        /\ (\E i \in DOMAIN unit.schema0 :
               /\ NumericEl(unit.schema0[i])
               /\ \E r \in Rows : NoNumber(CellText0(r, i))) =>
              unit.thrown.name = "Error"

IsViz(el, id) == el.kind = "object" /\ el.target = "viz" /\ el.id = id

(* C22: after a load, every cell of a node column declared {target:'viz',  *)
(* id:'size'} and of an edge column declared {target:'viz',                *)
(* id:'thickness'} is the number that parseFloat gives for its text.       *)
C22_VizNumbersParsed ==
    LoadOk =>
        \A i \in DOMAIN unit.schema0 :
            IsViz(unit.schema0[i], IF unit.isNodeSchema THEN "size" ELSE "thickness") =>
                \A r \in Rows :
                    /\ unit.records.rows[r][i].t # "string"
                    /\ unit.records.rows[r][i] = parseFloat(unit.records0.rows[r][i])

(* the schema without the types given on its 'viz' elements *)
Untyped(schema) ==
    [i \in DOMAIN schema |->
        IF schema[i].kind = "object" /\ schema[i].target = "viz"
        THEN [schema[i] EXCEPT !.type = Undefined] ELSE schema[i]]

(* C23: the load of a table under a schema and its load under the same     *)
(* schema without the types of the 'viz' elements have the same outcome    *)
(* and give the same records.                                              *)
C23_VizTypeIgnored ==
    LoadDone =>
        LET plain == loadRecords(unit.records0, Untyped(unit.schema0),
                                 unit.isNodeSchema)
        IN  /\ unit.records = plain.records
            /\ (unit.thrown = NoError) = (plain.promise.state = "fulfilled")

(* the function that a typed column is parsed with *)
ParseFnOf(el) ==
    IF el = Marker("weight") THEN "parseFloat"
    ELSE IF el.type = "integer" THEN "parseInt"
    ELSE IF el.type = "float" THEN "parseFloat"
    ELSE "parseBoolean"
TypedEl(el) ==
    \/ el = Marker("weight")
    \/ /\ el.kind = "object"
       /\ el.target = "attributes"
       /\ el.type \in {"integer", "float", "boolean"}

(* C25: after a load, in every record from the first to the last, every    *)
(* cell of a column under the marker 'weight' or declared as an attribute  *)
(* of type integer, float or boolean holds the value parsed from its text  *)
(* and no string.                                                          *)
C25_EveryRecordCoerced ==
    LoadOk =>
        \A i \in DOMAIN unit.schema0 :
            TypedEl(unit.schema0[i]) =>
                \A r \in Rows :
                    /\ unit.records.rows[r][i].t # "string"
                    /\ unit.records.rows[r][i] =
                          ApplyFn(ParseFnOf(unit.schema0[i]), unit.records0.rows[r][i])

C25_Witness ==
    /\ LoadOk
    /\ ~unit.isNodeSchema
    /\ Len(unit.schema0) = 3
    /\ unit.schema0[3] = Marker("weight")
    /\ Len(unit.records0.rows) = 2
    /\ CellText0(1, 3) = <<"1", ".", "5">>
    /\ unit.records.rows[1][3] = Num(15, 1)
    /\ CellText0(2, 3) = <<"1", "2">>
    /\ unit.records.rows[2][3] = Num(12, 0)

(* C27: a load changes no schema element after checkSchema: the schema it  *)
(* leaves is the one checkSchema left, so an element declared with target  *)
(* 'viz' still has target 'viz'.                                           *)
C27_SchemaKeptByParseValues ==
    LoadOk =>
        unit.schema = checkSchema(unit.records0, unit.schema0, unit.isNodeSchema).schema

====
